---- MODULE Spec2Model ----
\* A model of FreesoundDownloader::Downloader (include/freesound_downloader.h,
\* src/freesound_downloader.cpp): the constructor's API-key resolution and the
\* three request operations, run against a nondeterministic provider, process
\* environment and destination file.
EXTENDS Integers, Sequences, FiniteSets, TLC

VARIABLES env, client, fs, last

vars == <<env, client, fs, last>>

-----------------------------------------------------------------------------
\* Bounds and input domains

\* longest response body the provider sends
MaxBodyLen == 1

Byte == {0, 1}

\* std::optional<T>: the empty sequence is std::nullopt, <<v>> holds v
Nullopt == <<>>

Some(v) == <<v>>

Bodies == UNION {[1..n -> Byte] : n \in 0..MaxBodyLen}

\* body of a rejection (its content is never returned nor written)
ErrorBody == <<0>>

StatusCodes == {200, 204, 404}

\* what the provider does with one cpr::Get: the call raises, or it yields a
\* response with a status code and a body
NetOutcomes ==
    {[raised |-> TRUE, status_code |-> 0, text |-> <<>>]}
    \cup {[raised |-> FALSE, status_code |-> 200, text |-> b] : b \in Bodies}
    \cup {[raised |-> FALSE, status_code |-> s, text |-> ErrorBody] :
            s \in StatusCodes \ {200}}

\* what the filesystem does with the destination: whether std::ofstream opens
\* it, and how many bytes it accepts before writes start to fail
IoOutcomes ==
    {[open_ok |-> FALSE, capacity |-> 0]}
    \cup {[open_ok |-> TRUE, capacity |-> c] : c \in 0..MaxBodyLen}

EnvValues == {Nullopt, Some(""), Some("test_api_key")}

ApiKeys == {"", "tok"}

Queries == {"piano", ""}

SoundIds == {7, 4242}

Paths == {"out.wav"}

OptFilters == {Nullopt, Some("duration:[0 TO 30]")}

OptSorts == {Nullopt, Some("score")}

OptWeights == {Nullopt, Some("")}

DefaultPage == 1

DefaultPageSize == 15

Pages == {DefaultPage}

PageSizes == {DefaultPageSize}

TimeoutMs == 10000

-----------------------------------------------------------------------------
\* Helpers

BASE_URL == "https://freesound.org/apiv2/"

FIELDS == "id,name,username,description,tags,preview-hq-mp3,duration"

Digit(d) ==
    CASE d = 0 -> "0" [] d = 1 -> "1" [] d = 2 -> "2" [] d = 3 -> "3"
      [] d = 4 -> "4" [] d = 5 -> "5" [] d = 6 -> "6" [] d = 7 -> "7"
      [] d = 8 -> "8" [] d = 9 -> "9"

RECURSIVE NatToString(_)
NatToString(n) ==
    IF n < 10 THEN Digit(n) ELSE NatToString(n \div 10) \o Digit(n % 10)

\* std::to_string(int)
to_string(n) == IF n < 0 THEN "-" \o NatToString(0 - n) ELSE NatToString(n)

Return(v) == [kind |-> "return", value |-> v]

Throw(e) == [kind |-> "throw", value |-> e]

Min(a, b) == IF a < b THEN a ELSE b

\* one cpr::Get as the provider sees it
Request(url, params, header, timeout) ==
    [url |-> url, params |-> params, header |-> header, timeout |-> timeout]

-----------------------------------------------------------------------------
\* The code

\* default argument of the constructor: getenv(...) ? getenv(...) : ""
DefaultApiKey(e) == IF e # Nullopt THEN e[1] ELSE ""

\* variant: the environment variable takes precedence over the argument
Downloader_envFirst(api_key, e) ==
    LET key == IF e # Nullopt /\ e[1] # "" THEN e[1] ELSE api_key
    IN IF key = "" THEN Throw("std::invalid_argument") ELSE Return(key)

\* variant: the second emptiness test is missing
Downloader_noThrow(api_key, e) ==
    IF api_key = ""
    THEN Return(IF e # Nullopt THEN e[1] ELSE api_key)
    ELSE Return(api_key)

\* Downloader::Downloader(api_key) in environment e: the value of m_api_key,
\* or std::invalid_argument
Downloader(api_key, e) ==
    IF api_key = ""
    THEN LET env_key == e
             key == IF env_key # Nullopt THEN env_key[1] ELSE api_key
         IN IF key = "" THEN Throw("std::invalid_argument") ELSE Return(key)
    ELSE Return(api_key)

\* variant: the destination is opened before the status is tested
downloadSound_openFirst(m_api_key, sound_id, output_path, net, io, file) ==
    LET download_url ==
            BASE_URL \o "sounds/" \o to_string(sound_id) \o "/download/"
        req == Request(download_url, <<<<"token", m_api_key>>>>, <<>>, Nullopt)
        written == SubSeq(net.text, 1, Min(io.capacity, Len(net.text)))
    IN IF net.raised
       THEN [outcome |-> Throw("transport"), reqs |-> <<req>>,
             events |-> <<"GET">>, file |-> file]
       ELSE IF ~io.open_ok
       THEN [outcome |-> Return(FALSE), reqs |-> <<req>>,
             events |-> <<"GET", "open">>, file |-> file]
       ELSE IF net.status_code # 200
       THEN [outcome |-> Return(FALSE), reqs |-> <<req>>,
             events |-> <<"GET", "open", "close">>, file |-> Some(<<>>)]
       ELSE [outcome |-> Return(TRUE), reqs |-> <<req>>,
             events |-> <<"GET", "open", "write", "close">>,
             file |-> Some(written)]

\* variant: a rejected request is sent a second time
downloadSound_retry(m_api_key, sound_id, output_path, net, io, file) ==
    LET download_url ==
            BASE_URL \o "sounds/" \o to_string(sound_id) \o "/download/"
        req == Request(download_url, <<<<"token", m_api_key>>>>, <<>>, Nullopt)
        written == SubSeq(net.text, 1, Min(io.capacity, Len(net.text)))
    IN IF net.raised
       THEN [outcome |-> Throw("transport"), reqs |-> <<req>>,
             events |-> <<"GET">>, file |-> file]
       ELSE IF net.status_code # 200
       THEN [outcome |-> Return(FALSE), reqs |-> <<req, req>>,
             events |-> <<"GET", "GET">>, file |-> file]
       ELSE IF ~io.open_ok
       THEN [outcome |-> Return(FALSE), reqs |-> <<req>>,
             events |-> <<"GET", "open">>, file |-> file]
       ELSE [outcome |-> Return(TRUE), reqs |-> <<req>>,
             events |-> <<"GET", "open", "write", "close">>,
             file |-> Some(written)]

\* Downloader::downloadSound: file is the destination's content before the
\* call (Nullopt: it does not exist)
downloadSound(m_api_key, sound_id, output_path, net, io, file) ==
    LET download_url ==
            BASE_URL \o "sounds/" \o to_string(sound_id) \o "/download/"
        req == Request(download_url, <<<<"token", m_api_key>>>>, <<>>, Nullopt)
        written == SubSeq(net.text, 1, Min(io.capacity, Len(net.text)))
    IN IF net.raised
       THEN [outcome |-> Throw("transport"), reqs |-> <<req>>,
             events |-> <<"GET">>, file |-> file]
       ELSE IF net.status_code # 200
       THEN [outcome |-> Return(FALSE), reqs |-> <<req>>,
             events |-> <<"GET">>, file |-> file]
       ELSE IF ~io.open_ok
       THEN [outcome |-> Return(FALSE), reqs |-> <<req>>,
             events |-> <<"GET", "open">>, file |-> file]
       ELSE [outcome |-> Return(TRUE), reqs |-> <<req>>,
             events |-> <<"GET", "open", "write", "close">>,
             file |-> Some(written)]

\* variant: every 2xx status counts as success
searchSounds_any2xx(m_api_key, query, page, page_size, net) ==
    LET search_url == BASE_URL \o "search/text/"
        req == Request(search_url,
                       << <<"query", query>>,
                          <<"token", m_api_key>>,
                          <<"page", to_string(page)>>,
                          <<"page_size", to_string(page_size)>> >>,
                       <<>>, Nullopt)
    IN IF net.raised
       THEN [outcome |-> Throw("transport"), reqs |-> <<req>>,
             events |-> <<"GET">>]
       ELSE IF net.status_code < 200 \/ net.status_code >= 300
       THEN [outcome |-> Return(Nullopt), reqs |-> <<req>>,
             events |-> <<"GET">>]
       ELSE [outcome |-> Return(Some(net.text)), reqs |-> <<req>>,
             events |-> <<"GET">>]

\* variant: the request is wrapped in the try/catch of the advanced search
searchSounds_guarded(m_api_key, query, page, page_size, net) ==
    LET search_url == BASE_URL \o "search/text/"
        req == Request(search_url,
                       << <<"query", query>>,
                          <<"token", m_api_key>>,
                          <<"page", to_string(page)>>,
                          <<"page_size", to_string(page_size)>> >>,
                       <<>>, Nullopt)
    IN IF net.raised
       THEN [outcome |-> Return(Nullopt), reqs |-> <<req>>,
             events |-> <<"GET", "catch">>]
       ELSE IF net.status_code # 200
       THEN [outcome |-> Return(Nullopt), reqs |-> <<req>>,
             events |-> <<"GET">>]
       ELSE [outcome |-> Return(Some(net.text)), reqs |-> <<req>>,
             events |-> <<"GET">>]

\* Downloader::searchSounds(query, page, page_size)
searchSounds(m_api_key, query, page, page_size, net) ==
    LET search_url == BASE_URL \o "search/text/"
        req == Request(search_url,
                       << <<"query", query>>,
                          <<"token", m_api_key>>,
                          <<"page", to_string(page)>>,
                          <<"page_size", to_string(page_size)>> >>,
                       <<>>, Nullopt)
    IN IF net.raised
       THEN [outcome |-> Throw("transport"), reqs |-> <<req>>,
             events |-> <<"GET">>]
       ELSE IF net.status_code # 200
       THEN [outcome |-> Return(Nullopt), reqs |-> <<req>>,
             events |-> <<"GET">>]
       ELSE [outcome |-> Return(Some(net.text)), reqs |-> <<req>>,
             events |-> <<"GET">>]

\* variant: an omitted filter is sent with an empty value
AdvancedParams_sendEmpty(query, filter, sort, page, page_size, group_by_pack, weights) ==
    LET p0 == << <<"query", query>>,
                 <<"page", to_string(page)>>,
                 <<"page_size", to_string(page_size)>>,
                 <<"fields", FIELDS>> >>
        p1 == Append(p0, <<"filter", IF filter # Nullopt THEN filter[1] ELSE "">>)
        p2 == IF sort # Nullopt THEN Append(p1, <<"sort", sort[1]>>) ELSE p1
        p3 == Append(p2, <<"group_by_pack", IF group_by_pack THEN "1" ELSE "0">>)
    IN IF weights # Nullopt THEN Append(p3, <<"weights", weights[1]>>) ELSE p3

\* the cpr::Parameters the advanced search builds
AdvancedParams(query, filter, sort, page, page_size, group_by_pack, weights) ==
    LET p0 == << <<"query", query>>,
                 <<"page", to_string(page)>>,
                 <<"page_size", to_string(page_size)>>,
                 <<"fields", FIELDS>> >>
        p1 == IF filter # Nullopt THEN Append(p0, <<"filter", filter[1]>>) ELSE p0
        p2 == IF sort # Nullopt THEN Append(p1, <<"sort", sort[1]>>) ELSE p1
        p3 == Append(p2, <<"group_by_pack", IF group_by_pack THEN "1" ELSE "0">>)
    IN IF weights # Nullopt THEN Append(p3, <<"weights", weights[1]>>) ELSE p3

\* variant: the request is made outside any try/catch
searchSoundsAdvanced_noCatch(m_api_key, params, net) ==
    LET search_url == BASE_URL \o "search/text/"
        req == Request(search_url, params,
                       << <<"Authorization", "Token " \o m_api_key>>,
                          <<"Content-Type", "application/json">> >>,
                       Some(TimeoutMs))
    IN IF net.raised
       THEN [outcome |-> Throw("transport"), reqs |-> <<req>>,
             events |-> <<"GET">>]
       ELSE IF net.status_code = 200
       THEN [outcome |-> Return(Some(net.text)), reqs |-> <<req>>,
             events |-> <<"GET">>]
       ELSE [outcome |-> Return(Nullopt), reqs |-> <<req>>,
             events |-> <<"GET", "log">>]

\* Downloader::searchSounds(query, filter, sort, page, page_size,
\* group_by_pack, weights), given the parameters it built
searchSoundsAdvanced(m_api_key, params, net) ==
    LET search_url == BASE_URL \o "search/text/"
        req == Request(search_url, params,
                       << <<"Authorization", "Token " \o m_api_key>>,
                          <<"Content-Type", "application/json">> >>,
                       Some(TimeoutMs))
    IN IF net.raised
       THEN [outcome |-> Return(Nullopt), reqs |-> <<req>>,
             events |-> <<"GET", "catch">>]
       ELSE IF net.status_code = 200
       THEN [outcome |-> Return(Some(net.text)), reqs |-> <<req>>,
             events |-> <<"GET">>]
       ELSE [outcome |-> Return(Nullopt), reqs |-> <<req>>,
             events |-> <<"GET", "log">>]

-----------------------------------------------------------------------------
\* State machine

NoCall == [op |-> "none"]

Init ==
    /\ env \in EnvValues
    /\ client = Nullopt
    /\ fs = [p \in Paths |-> Nullopt]
    /\ last = NoCall

\* setenv / unsetenv of FREESOUND_API_KEY by the program around the client
SetEnv ==
    /\ \E e \in EnvValues : e # env /\ env' = e
    /\ UNCHANGED <<client, fs, last>>

\* Downloader d(api_key);
Construct ==
    \E api_key \in ApiKeys :
        LET r == Downloader(api_key, env)
        IN /\ client = Nullopt
           /\ client' = IF r.kind = "return"
                          THEN Some([m_api_key |-> r.value]) ELSE Nullopt
           /\ last' = [op |-> "Downloader", defaulted |-> FALSE,
                       api_key |-> api_key, env |-> env, res |-> r]
           /\ UNCHANGED <<env, fs>>

\* Downloader d;
ConstructDefault ==
    LET api_key == DefaultApiKey(env)
        r == Downloader(api_key, env)
    IN /\ client = Nullopt
       /\ client' = IF r.kind = "return"
                      THEN Some([m_api_key |-> r.value]) ELSE Nullopt
       /\ last' = [op |-> "Downloader", defaulted |-> TRUE,
                   api_key |-> api_key, env |-> env, res |-> r]
       /\ UNCHANGED <<env, fs>>

\* the client goes out of scope
Destroy ==
    /\ client # Nullopt
    /\ client' = Nullopt
    /\ last' = NoCall
    /\ UNCHANGED <<env, fs>>

DownloadSound ==
    \E sound_id \in SoundIds, output_path \in Paths,
       net \in NetOutcomes, io \in IoOutcomes :
        LET r == downloadSound(client[1].m_api_key, sound_id, output_path,
                               net, io, fs[output_path])
        IN /\ client # Nullopt
           /\ fs' = [fs EXCEPT ![output_path] = r.file]
           /\ last' = [op |-> "downloadSound",
                       args |-> [sound_id |-> sound_id,
                                 output_path |-> output_path],
                       net |-> net, io |-> io, before |-> fs[output_path],
                       res |-> r]
           /\ UNCHANGED <<env, client>>

SearchSounds ==
    \E query \in Queries, page \in Pages, page_size \in PageSizes,
       net \in NetOutcomes :
        LET r == searchSounds(client[1].m_api_key, query, page, page_size, net)
        IN /\ client # Nullopt
           /\ last' = [op |-> "searchSounds",
                       args |-> [query |-> query, page |-> page,
                                 page_size |-> page_size],
                       net |-> net, res |-> r]
           /\ UNCHANGED <<env, client, fs>>

\* variant: the call resolves the key from the environment again and keeps it
SearchSoundsAdvanced_rereadsEnv ==
    \E query \in Queries, filter \in OptFilters, sort \in OptSorts,
       page \in Pages, page_size \in PageSizes, group_by_pack \in BOOLEAN,
       weights \in OptWeights, net \in NetOutcomes :
        LET key == IF env # Nullopt THEN env[1] ELSE client[1].m_api_key
            params == AdvancedParams(query, filter, sort, page, page_size,
                                     group_by_pack, weights)
            r == searchSoundsAdvanced(key, params, net)
        IN /\ client # Nullopt
           /\ client' = Some([m_api_key |-> key])
           /\ last' = [op |-> "searchSoundsAdvanced",
                       args |-> [query |-> query, filter |-> filter,
                                 sort |-> sort, page |-> page,
                                 page_size |-> page_size,
                                 group_by_pack |-> group_by_pack,
                                 weights |-> weights],
                       net |-> net, res |-> r]
           /\ UNCHANGED <<env, fs>>

SearchSoundsAdvanced ==
    \E query \in Queries, filter \in OptFilters, sort \in OptSorts,
       page \in Pages, page_size \in PageSizes, group_by_pack \in BOOLEAN,
       weights \in OptWeights, net \in NetOutcomes :
        LET params == AdvancedParams(query, filter, sort, page, page_size,
                                     group_by_pack, weights)
            r == searchSoundsAdvanced(client[1].m_api_key, params, net)
        IN /\ client # Nullopt
           /\ last' = [op |-> "searchSoundsAdvanced",
                       args |-> [query |-> query, filter |-> filter,
                                 sort |-> sort, page |-> page,
                                 page_size |-> page_size,
                                 group_by_pack |-> group_by_pack,
                                 weights |-> weights],
                       net |-> net, res |-> r]
           /\ UNCHANGED <<env, client, fs>>

Next ==
    \/ SetEnv
    \/ Construct
    \/ ConstructDefault
    \/ Destroy
    \/ DownloadSound
    \/ SearchSounds
    \/ SearchSoundsAdvanced

Spec == Init /\ [][Next]_vars

-----------------------------------------------------------------------------
\* Properties

CallOps == {"downloadSound", "searchSounds", "searchSoundsAdvanced"}

\* the parameters of the request the last call sent
SentParams == last.res.reqs[1].params

\* the values the sent request carries under key k, and how often k occurs
SentValues(k) == {SentParams[i][2] : i \in {j \in DOMAIN SentParams : SentParams[j][1] = k}}

SentCount(k) == Cardinality({j \in DOMAIN SentParams : SentParams[j][1] = k})

\* the destination of the last downloadSound call, as it is now
Destination == fs[last.args.output_path]

\* C1: the advanced search always returns and never raises: the body,
\* unmodified, on a 200 response; absent on any other status; absent on a
\* transport-level exception.
C1_AdvancedSearchNeverRaises ==
    last.op = "searchSoundsAdvanced" =>
        /\ last.res.outcome.kind = "return"
        /\ last.res.outcome.value =
              IF ~last.net.raised /\ last.net.status_code = 200
              THEN Some(last.net.text) ELSE Nullopt

C1_Witness ==
    /\ last.op = "searchSoundsAdvanced"
    /\ last.net.raised
    /\ last.res.outcome = Return(Nullopt)

\* C2: downloadSound on a 200 response with body B and a destination that
\* opens and takes all of B returns true and leaves exactly B in the file;
\* on any other status it returns false and leaves the destination as it
\* was (absent stays absent, existing content stays).
C2_DownloadWritesBodyOrNothing ==
    (last.op = "downloadSound" /\ ~last.net.raised) =>
        /\ (last.net.status_code = 200 /\ last.io.open_ok
              /\ last.io.capacity >= Len(last.net.text))
            => /\ last.res.outcome.kind = "return"
               /\ last.res.outcome.value = TRUE
               /\ Destination = Some(last.net.text)
        /\ last.net.status_code # 200
            => /\ last.res.outcome.kind = "return"
               /\ last.res.outcome.value = FALSE
               /\ Destination = last.before

C2_Witness ==
    /\ last.op = "downloadSound"
    /\ ~last.net.raised
    /\ last.net.status_code = 200
    /\ Len(last.net.text) > 0
    /\ last.before # Nullopt
    /\ last.before # Some(last.net.text)
    /\ last.res.outcome = Return(TRUE)
    /\ Destination = Some(last.net.text)

\* C3: after a 200 response, downloadSound returns false whenever the
\* destination cannot be opened or cannot be written, and returns true only
\* when the whole response body is in the destination.
C3_LocalIoFailureReturnsFalse ==
    (last.op = "downloadSound" /\ ~last.net.raised
        /\ last.net.status_code = 200) =>
        /\ last.res.outcome.kind = "return"
        /\ (~last.io.open_ok \/ last.io.capacity < Len(last.net.text))
            => last.res.outcome.value = FALSE
        /\ last.res.outcome.value = TRUE => Destination = Some(last.net.text)

\* C4: the advanced search's request carries query, page, page_size, the
\* fixed fields list and group_by_pack ("1" for true, "0" for false) exactly
\* once each, and each of filter, sort and weights exactly when it was
\* supplied, with the supplied value, and not at all when it was omitted.
C4_AdvancedParamsExact ==
    last.op = "searchSoundsAdvanced" =>
        /\ Len(last.res.reqs) = 1
        /\ SentCount("query") = 1 /\ SentValues("query") = {last.args.query}
        /\ SentCount("page") = 1
        /\ last.args.page = 1 => SentValues("page") = {"1"}
        /\ SentCount("page_size") = 1
        /\ last.args.page_size = 15 => SentValues("page_size") = {"15"}
        /\ SentCount("fields") = 1
        /\ SentValues("fields") =
              {"id,name,username,description,tags,preview-hq-mp3,duration"}
        /\ SentCount("group_by_pack") = 1
        /\ SentValues("group_by_pack") =
              {IF last.args.group_by_pack THEN "1" ELSE "0"}
        /\ \A k \in {"filter", "sort", "weights"} :
              IF last.args[k] = Nullopt
              THEN SentCount(k) = 0
              ELSE SentCount(k) = 1 /\ SentValues(k) = {last.args[k][1]}

C4_Witness ==
    /\ last.op = "searchSoundsAdvanced"
    /\ last.args.filter = Nullopt
    /\ last.args.sort = Some("score")
    /\ last.args.weights = Some("")
    /\ last.args.group_by_pack
    /\ SentCount("filter") = 0
    /\ SentValues("sort") = {"score"}
    /\ SentValues("weights") = {""}
    /\ SentValues("group_by_pack") = {"1"}

\* C5: the simple search with a non-empty query returns exactly the response
\* body on a 200 response and an absent result on any other status, and its
\* request carries no filter, sort, weights or fields parameter.
C5_SimpleSearchPassThrough ==
    (last.op = "searchSounds" /\ last.args.query # "" /\ ~last.net.raised) =>
        /\ last.res.outcome.kind = "return"
        /\ last.res.outcome.value =
              IF last.net.status_code = 200
              THEN Some(last.net.text) ELSE Nullopt
        /\ \A k \in {"filter", "sort", "weights", "fields"} : SentCount(k) = 0

C5_Witness ==
    /\ last.op = "searchSounds"
    /\ last.args.query # ""
    /\ ~last.net.raised
    /\ last.net.status_code = 200
    /\ Len(last.net.text) > 0
    /\ last.res.outcome = Return(Some(last.net.text))

\* C6: construction with a non-empty explicit token succeeds whatever the
\* environment variable holds, and the client holds the explicit token.
C6_ExplicitTokenWins ==
    (last.op = "Downloader" /\ ~last.defaulted /\ last.api_key # "") =>
        /\ last.res.kind = "return"
        /\ client = Some([m_api_key |-> last.api_key])

C6_Witness ==
    /\ last.op = "Downloader"
    /\ ~last.defaulted
    /\ last.api_key = "tok"
    /\ last.env = Some("test_api_key")
    /\ client = Some([m_api_key |-> "tok"])

\* C7: construction with an empty explicit token, or with no argument,
\* succeeds exactly when the environment variable holds a non-empty value,
\* and the client then holds that value; otherwise it raises
\* std::invalid_argument and no client exists.
C7_EmptyTokenFallsBackToEnv ==
    (last.op = "Downloader" /\ (last.defaulted \/ last.api_key = "")) =>
        IF last.env # Nullopt /\ last.env[1] # ""
        THEN /\ last.res.kind = "return"
             /\ client = Some([m_api_key |-> last.env[1]])
        ELSE /\ last.res = Throw("std::invalid_argument")
             /\ client = Nullopt

C7_Witness ==
    /\ last.op = "Downloader"
    /\ last.api_key = ""
    /\ last.env = Some("")
    /\ last.res = Throw("std::invalid_argument")
    /\ client = Nullopt

\* two calls in a row with the same arguments, provider answer and
\* filesystem behaviour
SameCallAgain ==
    /\ last.op \in CallOps
    /\ last'.op = last.op
    /\ last'.args = last.args
    /\ last'.net = last.net
    /\ last.op = "downloadSound" => last'.io = last.io

\* what the caller and the provider see of a call: the requests sent and the
\* value returned or the exception raised
Observed(call) == [outcome |-> call.res.outcome, reqs |-> call.res.reqs,
                   events |-> call.res.events]

\* C8: a client's token is non-empty, and no downloadSound or searchSounds
\* call changes it; a call repeated with the same arguments and the same
\* provider and filesystem behaviour has the same outcome as before.
C8_TokenFixedAndCallsStateless ==
    [][/\ client # Nullopt => client[1].m_api_key # ""
       /\ client' # Nullopt => client'[1].m_api_key # ""
       /\ (client # Nullopt /\ client' # Nullopt) => client' = client
       /\ SameCallAgain => Observed(last') = Observed(last)]_vars

C8_Witness ==
    /\ client # Nullopt
    /\ client[1].m_api_key = "test_api_key"
    /\ env # Some("test_api_key")
    /\ last.op = "searchSoundsAdvanced"

\* C9: a transport-level exception during the simple search or downloadSound
\* reaches the caller as an exception, and downloadSound then neither opens
\* nor changes the destination.
C9_TransportExceptionPropagates ==
    (last.op \in {"searchSounds", "downloadSound"} /\ last.net.raised) =>
        /\ last.res.outcome = Throw("transport")
        /\ last.op = "downloadSound" =>
              /\ Destination = last.before
              /\ \A i \in DOMAIN last.res.events : last.res.events[i] # "open"

C9_Witness ==
    /\ last.op = "downloadSound"
    /\ last.net.raised
    /\ last.before # Nullopt
    /\ last.res.outcome = Throw("transport")

\* C10: every downloadSound or searchSounds call sends exactly one GET
\* request, first of all it does, whatever the outcome; downloadSound opens
\* the destination only after that request.
C10_ExactlyOneRequest ==
    last.op \in CallOps =>
        /\ Len(last.res.reqs) = 1
        /\ Cardinality({i \in DOMAIN last.res.events :
                            last.res.events[i] = "GET"}) = 1
        /\ last.res.events[1] = "GET"

C10_Witness ==
    /\ last.op = "downloadSound"
    /\ ~last.net.raised
    /\ last.net.status_code = 200
    /\ ~last.io.open_ok
    /\ last.res.events = <<"GET", "open">>
    /\ Len(last.res.reqs) = 1
    /\ last.res.outcome = Return(FALSE)

====
